---- MODULE Spec2Model ----
(***************************************************************************)
(* Pulkit vs Harshil: the two-player arena game of codecraft-sanju/game.   *)
(*                                                                         *)
(* The repository holds several iterations of the same React component.    *)
(* The variable `variant` names the iteration a behaviour runs:            *)
(*   "part_006"  App with the score cap, utils/gameUtils (part_005)        *)
(*   "App"       src/src/App.jsx, joystick variant without score cap       *)
(*   "part_002"  the "Advanced" App of part_002 (lines 65 ff.)             *)
(*   "part_000"  the button variant (left / right / dash buttons)          *)
(*                                                                         *)
(* Numbers.  Lengths are fixed-point integers in 1/1000 pixel, velocities  *)
(* in 1/1000 pixel per tick, joystick components in 1/100, times in        *)
(* milliseconds of performance.now().  A product or quotient of the        *)
(* source is rounded to the nearest unit (RoundDiv); Math.hypot is the     *)
(* integer square root of the squared distance.                            *)
(***************************************************************************)
EXTENDS Integers, Sequences, FiniteSets, TLC

(***************************************************************************)
(* Program constants (utils/gameUtils = part_005, repeated in App.jsx and  *)
(* part_002; part_000 has its own set).                                    *)
(***************************************************************************)
UNIT == 1000
WORLD_W == 960000
WORLD_H == 540000
PLAYER_R == 16000
STAR_R == 10000
OBSTACLE_R == 18000
POWER_R == 14000
BASE_SPEED == 2600
BOOST_SPEED == 4200
DASH_BOOST == 7000
DASH_TIME == 180
DASH_COOLDOWN == 900
BOOST_DURATION == 5000
FRICTION == 88
MAX_STARS == 6
STAR_RESPAWN_MS == 1000
OBSTACLE_COUNT == 5
POWER_CHANCE_MS == 5000
ROUND_TIME == 75
WIN_SCORE == 12
\* the clamp margin `8 + PLAYER_R` of updatePlayer
WALL_PAD == 8000
\* the 0.01 added to every penetration depth
EPSILON == 10
\* knockback impulses: 1.2 (obstacle) and 0.8 (player against player)
OBSTACLE_KNOCK == 1200
PLAYER_KNOCK == 800
\* hitTintUntil = performance.now() + 150
HIT_TINT_MS == 150
\* `s.powers.length < 2` of App.jsx and part_002
MAX_POWERS == 2

\* part_000 (button variant)
B_WORLD_W == 900000
B_BASE_SPEED == 3200
B_DASH_SPEED == 6000
B_STAR_SIZE == 10000
B_FRICTION == 90
B_ROUND_TIME == 60
B_WIN_SCORE == 10
B_MAX_STARS == 5
B_STAR_RESPAWN_MS == 900

\* JavaScript values that are not finite numbers, as they occur in the
\* control objects: lastDash starts as -Infinity, and a field that an
\* object literal `{ vx, vy }` does not have reads as undefined.  Every
\* timestamp of the program is >= 0, so the two codes stand for nothing else.
NEG_INFINITY == -1
UNDEFINED == -2
\* the value of `winner` before a round has ended
NULL == "null"

IDS == {"pulkit", "harshil"}
Variants == {"part_006", "App", "part_002", "part_000"}

(***************************************************************************)
(* Arithmetic                                                              *)
(***************************************************************************)
Abs(a) == IF a < 0 THEN -a ELSE a
Max(a, b) == IF a >= b THEN a ELSE b
Min(a, b) == IF a <= b THEN a ELSE b

\* a / b rounded to the nearest integer, halves away from zero (b > 0)
RoundDiv(a, b) ==
  IF a >= 0 THEN (2 * a + b) \div (2 * b) ELSE -((2 * (-a) + b) \div (2 * b))

RECURSIVE SqrtIter(_, _, _)
SqrtIter(n, lo, hi) ==
  IF lo >= hi THEN lo
  ELSE LET mid == (lo + hi + 1) \div 2
       IN IF mid * mid <= n THEN SqrtIter(n, mid, hi) ELSE SqrtIter(n, lo, mid - 1)

\* floor of the square root, for 0 <= n < 2^31
ISqrt(n) == SqrtIter(n, 0, 46340)

\* Is the distance of (dx, dy) from the origin below lim (<) resp. at most
\* lim (<=)?  Exact, and without squaring a number above lim.
Within(dx, dy, lim, strict) ==
  /\ Abs(dx) <= lim
  /\ Abs(dy) <= lim
  /\ IF strict THEN dx * dx < lim * lim - dy * dy ELSE dx * dx <= lim * lim - dy * dy

\* Math.hypot(dx, dy), for a pair already known to be Within some lim <= 34000
Hypot(dx, dy) == ISqrt(dx * dx + dy * dy)

(***************************************************************************)
(* Entities and world helpers (part_005; the same text in App.jsx 375-460  *)
(* and part_002 400-520)                                                   *)
(***************************************************************************)
initPlayer(x, y) ==
  [x |-> x, y |-> y, vx |-> 0, vy |-> 0, score |-> 0, boostUntil |-> 0, hitTintUntil |-> 0]

\* A property read `c.f` of a control object: undefined when the object has
\* no such field.
Field(c, f) == IF f \in DOMAIN c THEN c[f] ELSE UNDEFINED

\* `v || 0` for a timestamp v: undefined and 0 are falsy
OrZero(v) == IF v = UNDEFINED THEN 0 ELSE v

dashActive(ctrl, t) == t < OrZero(Field(ctrl, "dashUntil"))

\* The speed updatePlayer uses in a tick at time t.
\* A speed choice that lets an active boost win over an active dash.
SpeedBoostFirst(p, ctrl, t) ==
  IF t < p.boostUntil THEN BOOST_SPEED
  ELSE IF dashActive(ctrl, t) THEN DASH_BOOST
  ELSE BASE_SPEED

Speed(p, ctrl, t) ==
  IF dashActive(ctrl, t) THEN DASH_BOOST
  ELSE IF t < p.boostUntil THEN BOOST_SPEED
  ELSE BASE_SPEED

Clamp(lo, hi, v) == Max(lo, Min(hi, v))

\* updatePlayer, the part that writes the player.
updatePlayer(p, ctrl, t) ==
  LET speed == Speed(p, ctrl, t)
      vx1 == p.vx + RoundDiv(ctrl.vx * speed * 55, 10000)
      vy1 == p.vy + RoundDiv(ctrl.vy * speed * 55, 10000)
      vx2 == RoundDiv(vx1 * FRICTION, 100)
      vy2 == RoundDiv(vy1 * FRICTION, 100)
      pad == WALL_PAD + PLAYER_R
  IN [p EXCEPT !.vx = vx2, !.vy = vy2,
               !.x = Clamp(pad, WORLD_W - pad, p.x + vx2),
               !.y = Clamp(pad, WORLD_H - pad, p.y + vy2)]

\* updatePlayer, the part that writes the control object:
\* `if (dashActive && now >= ctrl.dashUntil) ctrl.dash = false`.
updateCtrl(ctrl, t) ==
  IF dashActive(ctrl, t) /\ t >= ctrl.dashUntil THEN [ctrl EXCEPT !.dash = FALSE] ELSE ctrl

\* An obstacle iteration that, for a player sitting exactly on the obstacle's
\* centre, takes the x axis as the normal instead of the zero vector.
CollideOneAlongX(p, o, t) ==
  LET dx == p.x - o.x
      dy == p.y - o.y
      minDist == PLAYER_R + o.r
  IN IF ~Within(dx, dy, minDist, TRUE) THEN p
     ELSE LET dist == Hypot(dx, dy)
              nx == IF dist = 0 THEN UNIT ELSE dx
              d1 == IF dist = 0 THEN UNIT ELSE dist
              pen == minDist - dist + EPSILON
          IN [p EXCEPT !.x = @ + RoundDiv(nx * pen, d1),
                       !.y = @ + RoundDiv(dy * pen, d1),
                       !.vx = @ + RoundDiv(nx * OBSTACLE_KNOCK, d1),
                       !.vy = @ + RoundDiv(dy * OBSTACLE_KNOCK, d1),
                       !.hitTintUntil = t + HIT_TINT_MS]

\* One iteration of the obstacle loop of collideWorldAndObstacles.
CollideOne(p, o, t) ==
  LET dx == p.x - o.x
      dy == p.y - o.y
      minDist == PLAYER_R + o.r
  IN IF ~Within(dx, dy, minDist, TRUE) THEN p
     ELSE LET dist == Hypot(dx, dy)
              d1 == IF dist = 0 THEN UNIT ELSE dist    \* `dist || 1`
              pen == minDist - dist + EPSILON
          IN [p EXCEPT !.x = @ + RoundDiv(dx * pen, d1),
                       !.y = @ + RoundDiv(dy * pen, d1),
                       !.vx = @ + RoundDiv(dx * OBSTACLE_KNOCK, d1),
                       !.vy = @ + RoundDiv(dy * OBSTACLE_KNOCK, d1),
                       !.hitTintUntil = t + HIT_TINT_MS]

RECURSIVE CollideFrom(_, _, _, _)
CollideFrom(p, obstacles, i, t) ==
  IF i > Len(obstacles) THEN p
  ELSE CollideFrom(CollideOne(p, obstacles[i], t), obstacles, i + 1, t)

collideWorldAndObstacles(p, obstacles, t) == CollideFrom(p, obstacles, 1, t)

\* A bounce that leaves a where it is and moves b by the whole penetration.
resolvePlayersBounceOneSided(a, b) ==
  LET dx == b.x - a.x
      dy == b.y - a.y
      minDist == PLAYER_R * 2
  IN IF ~Within(dx, dy, minDist, TRUE) \/ (dx = 0 /\ dy = 0) THEN <<a, b>>
     ELSE LET dist == Hypot(dx, dy)
              pen == minDist - dist + EPSILON
          IN << a,
                [b EXCEPT !.x = @ + RoundDiv(dx * pen, dist),
                          !.y = @ + RoundDiv(dy * pen, dist),
                          !.vx = @ + RoundDiv(dx * 2 * PLAYER_KNOCK, dist),
                          !.vy = @ + RoundDiv(dy * 2 * PLAYER_KNOCK, dist)] >>

\* resolvePlayersBounce: the pair (a, b) after the call.
resolvePlayersBounce(a, b) ==
  LET dx == b.x - a.x
      dy == b.y - a.y
      minDist == PLAYER_R * 2
  IN IF ~Within(dx, dy, minDist, TRUE) \/ (dx = 0 /\ dy = 0) THEN <<a, b>>
     ELSE LET dist == Hypot(dx, dy)
              pen == minDist - dist + EPSILON
              sx == RoundDiv(dx * pen, 2 * dist)
              sy == RoundDiv(dy * pen, 2 * dist)
              kx == RoundDiv(dx * PLAYER_KNOCK, dist)
              ky == RoundDiv(dy * PLAYER_KNOCK, dist)
          IN << [a EXCEPT !.x = @ - sx, !.y = @ - sy, !.vx = @ - kx, !.vy = @ - ky],
                [b EXCEPT !.x = @ + sx, !.y = @ + sy, !.vx = @ + kx, !.vy = @ + ky] >>

\* A splice that removes nothing: the collected item stays in the list.
SpliceNone(seq, i) == seq

\* stars.splice(i, 1)
Splice(seq, i) == SubSeq(seq, 1, i - 1) \o SubSeq(seq, i + 1, Len(seq))

\* `dx * dx + dy * dy <= (PLAYER_R + r * 0.7) ** 2`
InReach(p, item, r) == Within(p.x - item.x, p.y - item.y, PLAYER_R + (r * 7) \div 10, FALSE)

\* A collection loop that counts every star it removes twice.
RECURSIVE CollectFromTwice(_, _, _, _)
CollectFromTwice(player, stars, i, r) ==
  IF i < 1 THEN [p |-> player, items |-> stars]
  ELSE IF InReach(player, stars[i], r)
       THEN CollectFromTwice([player EXCEPT !.score = @ + 2], Splice(stars, i), i - 1, r)
       ELSE CollectFromTwice(player, stars, i - 1, r)

\* The loop of collectItems, from the last item down to the first.
RECURSIVE CollectFrom(_, _, _, _)
CollectFrom(player, stars, i, r) ==
  IF i < 1 THEN [p |-> player, items |-> stars]
  ELSE IF InReach(player, stars[i], r)
       THEN CollectFrom([player EXCEPT !.score = @ + 1], Splice(stars, i), i - 1, r)
       ELSE CollectFrom(player, stars, i - 1, r)

\* A collectItems that removes the stars in reach without counting them.
collectItemsUnscored(player, stars, r) ==
  [p |-> player, items |-> CollectFrom(player, stars, Len(stars), r).items]

\* collectItems(player, stars, r): the player and the list after the call
collectItems(player, stars, r) == CollectFrom(player, stars, Len(stars), r)

\* A pickup loop that adds BOOST_DURATION to the boost the player has.
RECURSIVE TakeFromExtending(_, _, _, _)
TakeFromExtending(player, powers, i, t) ==
  IF i < 1 THEN [p |-> player, items |-> powers]
  ELSE IF InReach(player, powers[i], POWER_R)
       THEN TakeFromExtending(IF powers[i].type = "boost"
                                THEN [player EXCEPT !.boostUntil = Max(@, t) + BOOST_DURATION]
                                ELSE player,
                              Splice(powers, i), i - 1, t)
       ELSE TakeFromExtending(player, powers, i - 1, t)

RECURSIVE TakeFrom(_, _, _, _)
TakeFrom(player, powers, i, t) ==
  IF i < 1 THEN [p |-> player, items |-> powers]
  ELSE IF InReach(player, powers[i], POWER_R)
       THEN TakeFrom(IF powers[i].type = "boost"
                       THEN [player EXCEPT !.boostUntil = t + BOOST_DURATION]
                       ELSE player,
                     Splice(powers, i), i - 1, t)
       ELSE TakeFrom(player, powers, i - 1, t)

\* takePowerups(player, powers): the player and the list after the call
takePowerups(player, powers, t) == TakeFrom(player, powers, Len(powers), t)

\* The obstacle loop body of `loop`: move, then reflect the velocity.
MoveObstacle(o) ==
  LET x1 == o.x + o.vx
      y1 == o.y + o.vy
  IN [o EXCEPT !.x = x1, !.y = y1,
               !.vx = IF x1 < o.r \/ x1 > WORLD_W - o.r THEN -o.vx ELSE o.vx,
               !.vy = IF y1 < o.r \/ y1 > WORLD_H - o.r THEN -o.vy ELSE o.vy]

\* An obstacle loop that stops one short and loses the last obstacle.
MoveObstaclesShort(obstacles) ==
  [i \in 1..(Len(obstacles) - 1) |-> MoveObstacle(obstacles[i])]

MoveObstacles(obstacles) == [i \in DOMAIN obstacles |-> MoveObstacle(obstacles[i])]

\* `remain`: Math.max(0, ROUND_TIME - Math.floor(elapsed)), elapsed in seconds
Remain(roundTime, t, started) == Max(0, roundTime - ((t - started) \div 1000))

\* The winner the timer declares from the two scores; part_002 and part_000
\* write the names in lower case.
Name(v, who) ==
  IF v \in {"part_002", "part_000"}
  THEN (CASE who = "Pulkit" -> "pulkit" [] who = "Harshil" -> "harshil" [] OTHER -> "draw")
  ELSE who

\* A comparison of the scores that names nobody when they are equal.
ByScoreNoDraw(v, ps) ==
  IF ps.pulkit.score > ps.harshil.score THEN Name(v, "Pulkit")
  ELSE IF ps.harshil.score > ps.pulkit.score THEN Name(v, "Harshil")
  ELSE NULL

ByScore(v, ps) ==
  IF ps.pulkit.score > ps.harshil.score THEN Name(v, "Pulkit")
  ELSE IF ps.harshil.score > ps.pulkit.score THEN Name(v, "Harshil")
  ELSE Name(v, "Draw")

\* A score cap with the two names swapped.
ByCapSwapped(ps) == IF ps.pulkit.score > ps.harshil.score THEN "Harshil" ELSE "Pulkit"

\* The score cap of part_006: `pulkit.score > harshil.score ? "Pulkit" : "Harshil"`
ByCap(ps) == IF ps.pulkit.score > ps.harshil.score THEN "Pulkit" ELSE "Harshil"

(***************************************************************************)
(* The button variant (part_000): its own player update, a clamp after    *)
(* the update, no obstacles and no power-ups.                              *)
(***************************************************************************)
B_initPlayer(x, y) == [x |-> x, y |-> y, vx |-> 0, vy |-> 0, score |-> 0]

B_dashActive(ctrl, t) == t < OrZero(Field(ctrl, "dashActiveUntil"))

B_updatePlayer(p, ctrl, t) ==
  LET speed == IF B_dashActive(ctrl, t) THEN B_DASH_SPEED ELSE B_BASE_SPEED
      acc == RoundDiv(speed * 4, 10)
      vx0 == IF ctrl.left /\ ~ctrl.right THEN p.vx - acc ELSE p.vx
      vx1 == IF ctrl.right /\ ~ctrl.left THEN vx0 + acc ELSE vx0
      vx2 == RoundDiv(vx1 * B_FRICTION, 100)
      vy2 == RoundDiv(p.vy * B_FRICTION, 100)
  IN [p EXCEPT !.vx = vx2, !.vy = vy2, !.x = @ + vx2, !.y = @ + vy2]

B_updateCtrl(ctrl, t) ==
  IF B_dashActive(ctrl, t) /\ t >= ctrl.dashActiveUntil THEN [ctrl EXCEPT !.dash = FALSE] ELSE ctrl

clampToBounds(p) ==
  [p EXCEPT !.x = Clamp(WALL_PAD + PLAYER_R, B_WORLD_W - WALL_PAD - PLAYER_R, @),
            !.y = Clamp(WALL_PAD + PLAYER_R, WORLD_H - WALL_PAD - PLAYER_R, @)]

\* checkStars: `d2 <= (PLAYER_RADIUS + STAR_SIZE * 0.6) ** 2`
B_InReach(p, item) == Within(p.x - item.x, p.y - item.y, PLAYER_R + (B_STAR_SIZE * 6) \div 10, FALSE)

RECURSIVE B_CheckFrom(_, _, _)
B_CheckFrom(player, stars, i) ==
  IF i < 1 THEN [p |-> player, items |-> stars]
  ELSE IF B_InReach(player, stars[i])
       THEN B_CheckFrom([player EXCEPT !.score = @ + 1], Splice(stars, i), i - 1)
       ELSE B_CheckFrom(player, stars, i - 1)

checkStars(player, stars) == B_CheckFrom(player, stars, Len(stars))

(***************************************************************************)
(* Per-variant configuration                                               *)
(***************************************************************************)
RoundTime(v) == IF v = "part_000" THEN B_ROUND_TIME ELSE ROUND_TIME
WinScore(v) == IF v = "part_000" THEN B_WIN_SCORE ELSE WIN_SCORE
MaxStars(v) == IF v = "part_000" THEN B_MAX_STARS ELSE MAX_STARS
StarRespawn(v) == IF v = "part_000" THEN B_STAR_RESPAWN_MS ELSE STAR_RESPAWN_MS
WorldW(v) == IF v = "part_000" THEN B_WORLD_W ELSE WORLD_W

\* The players a round starts with.
Spawn(v) ==
  IF v = "part_000"
  THEN [pulkit |-> B_initPlayer(B_WORLD_W \div 4, (WORLD_H * 3) \div 4),
        harshil |-> B_initPlayer((B_WORLD_W * 3) \div 4, WORLD_H \div 4)]
  ELSE [pulkit |-> initPlayer(WORLD_W \div 4, (WORLD_H * 78) \div 100),
        harshil |-> initPlayer((WORLD_W * 3) \div 4, (WORLD_H * 22) \div 100)]

\* The control object each player starts with.
InitCtrl(v) ==
  IF v = "part_000"
  THEN [left |-> FALSE, right |-> FALSE, dash |-> FALSE,
        lastDash |-> NEG_INFINITY, dashActiveUntil |-> 0]
  ELSE [vx |-> 0, vy |-> 0, dash |-> FALSE, lastDash |-> NEG_INFINITY, dashUntil |-> 0]

\* Has the win-by-score-cap check (part_006 269-272)?
HasScoreCap(v) == v = "part_006"
\* Caps the concurrent power-ups (`s.powers.length < 2`)?
HasPowerCap(v) == v \in {"App", "part_002"}
\* Joystick onChange replaces the control object by `{ vx: x, vy: y }`?
JoyReplaces(v) == v = "part_006"
\* The Start button lives in the tutorial overlay (shown until the first
\* start); otherwise it is shown whenever the game is not running.
StartInTutorial(v) == v \in {"part_006", "App"}
\* Joysticks and dash buttons are rendered only while running?
ControlsWhileRunning(v) == v \in {"part_006", "App"}

(***************************************************************************)
(* State                                                                   *)
(***************************************************************************)
VARIABLES
  variant,        \* which iteration of the App runs (fixed by Init)
  now,            \* performance.now() at the latest frame, in ms
  running,        \* React state `running`
  winner,         \* React state `winner`
  countdown,      \* React state `countdown`
  showTutorial,   \* React state `showTutorial` (part_006, App)
  controls,       \* controls.current: player id -> control object
  players,        \* sRef.current.players
  stars,          \* sRef.current.stars
  powers,         \* sRef.current.powers
  obstacles,      \* sRef.current.obstacles
  startedAt,      \* sRef.current.startedAt
  lastStarAt,     \* sRef.current.lastStarAt (lastStarSpawn, lastSpawn)
  lastPowerCheck, \* sRef.current.lastPowerCheck (lastPowerTry)
  \* history variables: they record what the program did, the program
  \* reads none of them
  rounds,         \* number of startGame calls so far
  ticks,          \* number of animation frames so far
  inputs,         \* number of joystick, button and dash events so far
  winnerWrites,   \* the non-null values passed to setWinner since startGame
  dashedAt,       \* player id -> time of its latest dash that began (-Infinity: none)
  ev              \* the latest step: which handler ran and what it saw

vars == << variant, now, running, winner, countdown, showTutorial, controls, players,
           stars, powers, obstacles, startedAt, lastStarAt, lastPowerCheck,
           rounds, ticks, inputs, winnerWrites, dashedAt, ev >>

world == << players, stars, powers, obstacles, startedAt, lastStarAt, lastPowerCheck >>
ui == << running, winner, countdown, showTutorial >>

(***************************************************************************)
(* Bounds of the model                                                     *)
(***************************************************************************)
MaxTicks == 3        \* frames of a behaviour of Spec
MaxRounds == 2       \* startGame calls of a behaviour
MaxInputs == 2       \* joystick, button and dash events of a behaviour
RaceTicks == 23      \* frames of a behaviour of SpecRace
ArenaTicks == 34     \* frames of a behaviour of SpecArena
StockTicks == 8      \* frames of a behaviour of SpecStock
TieTicks == 24       \* frames of a behaviour of SpecTie
DashTicks == 3       \* frames of a behaviour of SpecDash
BounceSteps == 2     \* helper calls of a behaviour of SpecBounce
OrderTicks == 3      \* frames of a behaviour of SpecOrder
TakeSteps == 2       \* takePowerups calls of a behaviour of SpecTake

(***************************************************************************)
(* Init: the component right after its first render.                       *)
(***************************************************************************)
InitFor(vs, clocks) ==
  /\ variant \in vs
  /\ now \in clocks
  /\ running = FALSE
  /\ winner = NULL
  /\ countdown = RoundTime(variant)
  /\ showTutorial = TRUE
  /\ controls = [id \in IDS |-> InitCtrl(variant)]
  /\ players = Spawn(variant)
  /\ stars = << >>
  /\ powers = << >>
  /\ obstacles = << >>
  /\ startedAt = 0
  /\ lastStarAt = 0
  /\ lastPowerCheck = 0
  /\ rounds = 0
  /\ ticks = 0
  /\ inputs = 0
  /\ winnerWrites = << >>
  /\ dashedAt = [id \in IDS |-> NEG_INFINITY]
  /\ ev = [op |-> "init"]

(***************************************************************************)
(* startGame.  `layout` is the obstacle list the Math.random() calls of    *)
(* the seeding loop produce.                                               *)
(***************************************************************************)
\* What the seeding loop can produce for one obstacle.
SeededObstacle(o) ==
  /\ o.x >= 60 * UNIT /\ o.x <= WORLD_W - 60 * UNIT
  /\ o.y >= 60 * UNIT /\ o.y <= WORLD_H - 60 * UNIT
  /\ o.r = OBSTACLE_R
  /\ Abs(o.vx) <= 1400
  /\ Abs(o.vy) <= 1200

SeededLayout(l) == Len(l) = OBSTACLE_COUNT /\ \A i \in 1..Len(l) : SeededObstacle(l[i])

CanStart ==
  IF StartInTutorial(variant) THEN showTutorial ELSE ~running

StartGame(layout) ==
  /\ CanStart
  /\ rounds < MaxRounds
  /\ variant # "part_000" => SeededLayout(layout)
  /\ players' = Spawn(variant)
  /\ stars' = << >>
  /\ powers' = << >>
  /\ obstacles' = IF variant = "part_000" THEN << >> ELSE layout
  /\ startedAt' = now
  /\ lastStarAt' = 0
  /\ lastPowerCheck' = 0
  /\ winner' = NULL
  /\ countdown' = RoundTime(variant)
  /\ showTutorial' = FALSE
  /\ running' = TRUE
  /\ rounds' = rounds + 1
  /\ winnerWrites' = << >>
  /\ ev' = [op |-> "startGame"]
  /\ UNCHANGED << variant, now, controls, ticks, inputs, dashedAt >>

(***************************************************************************)
(* loop: one animation frame at time t.  `rnd` holds what the frame draws  *)
(* from Math.random(): the position of a spawned star, the power-up coin   *)
(* and the position of a spawned power-up.                                 *)
(***************************************************************************)
\* What randStar / randPower can return (margins 40 and 50).
RandStar(v, s) ==
  /\ s.x >= 40 * UNIT /\ s.x <= WorldW(v) - 40 * UNIT
  /\ s.y >= 40 * UNIT /\ s.y <= WORLD_H - 40 * UNIT

RandPower(q) ==
  /\ q.x >= 50 * UNIT /\ q.x <= WORLD_W - 50 * UNIT
  /\ q.y >= 50 * UNIT /\ q.y <= WORLD_H - 50 * UNIT

\* A spawn test that forgets the time since the last spawn.
SpawnsStarAnyTime(v, t) == Len(stars) < MaxStars(v)

\* A spawn test that forgets the limit on the number of stars.
SpawnsStarUncapped(v, t) == t - lastStarAt > StarRespawn(v)

SpawnsStar(v, t) == Len(stars) < MaxStars(v) /\ t - lastStarAt > StarRespawn(v)
TriesPower(v, t) == v # "part_000" /\ t - lastPowerCheck > POWER_CHANCE_MS

\* A frame whose pickup calls take Harshil before Pulkit.
FrameHarshilFirst(v, t, rnd) ==
  LET remain == Remain(RoundTime(v), t, startedAt)
      timedOut == remain <= 0
      spawn == SpawnsStar(v, t)
      stars1 == IF spawn THEN Append(stars, rnd.star) ELSE stars
      try == TriesPower(v, t)
      powers1 == IF try /\ rnd.coin /\ (HasPowerCap(v) => Len(powers) < MAX_POWERS)
                 THEN Append(powers, [type |-> "boost", x |-> rnd.power.x, y |-> rnd.power.y])
                 ELSE powers
      obstacles1 == MoveObstacles(obstacles)
      pu == updatePlayer(players.pulkit, controls.pulkit, t)
      hu == updatePlayer(players.harshil, controls.harshil, t)
      pc == collideWorldAndObstacles(pu, obstacles1, t)
      hc == collideWorldAndObstacles(hu, obstacles1, t)
      pb == resolvePlayersBounce(pc, hc)
      c2 == collectItems(pb[2], stars1, STAR_R)
      c1 == collectItems(pb[1], c2.items, STAR_R)
      t2 == takePowerups(c2.p, powers1, t)
      t1 == takePowerups(c1.p, t2.items, t)
      ps == [pulkit |-> t1.p, harshil |-> t2.p]
      capped == HasScoreCap(v) /\ (ps.pulkit.score >= WinScore(v) \/ ps.harshil.score >= WinScore(v))
  IN [remain |-> remain,
      timedOut |-> timedOut,
      capped |-> capped,
      writes |-> (IF timedOut THEN << ByScore(v, players) >> ELSE << >>)
                \o (IF capped THEN << ByCap(ps) >> ELSE << >>),
      controls |-> [pulkit |-> updateCtrl(controls.pulkit, t),
                    harshil |-> updateCtrl(controls.harshil, t)],
      players |-> ps,
      moved |-> [pulkit |-> pu, harshil |-> hu],
      offered |-> stars1,
      stars |-> c1.items,
      offeredPowers |-> powers1,
      powers |-> t1.items,
      obstacles |-> obstacles1,
      lastStarAt |-> IF spawn THEN t ELSE lastStarAt,
      lastPowerCheck |-> IF try THEN t ELSE lastPowerCheck]

\* A frame that picks up stars and power-ups right after moving the players,
\* before the collisions are resolved.
FramePickupsFirst(v, t, rnd) ==
  LET remain == Remain(RoundTime(v), t, startedAt)
      timedOut == remain <= 0
      spawn == SpawnsStar(v, t)
      stars1 == IF spawn THEN Append(stars, rnd.star) ELSE stars
      try == TriesPower(v, t)
      powers1 == IF try /\ rnd.coin /\ (HasPowerCap(v) => Len(powers) < MAX_POWERS)
                 THEN Append(powers, [type |-> "boost", x |-> rnd.power.x, y |-> rnd.power.y])
                 ELSE powers
      obstacles1 == MoveObstacles(obstacles)
      pu == updatePlayer(players.pulkit, controls.pulkit, t)
      hu == updatePlayer(players.harshil, controls.harshil, t)
      c1 == collectItems(pu, stars1, STAR_R)
      c2 == collectItems(hu, c1.items, STAR_R)
      t1 == takePowerups(c1.p, powers1, t)
      t2 == takePowerups(c2.p, t1.items, t)
      pc == collideWorldAndObstacles(t1.p, obstacles1, t)
      hc == collideWorldAndObstacles(t2.p, obstacles1, t)
      pb == resolvePlayersBounce(pc, hc)
      ps == [pulkit |-> pb[1], harshil |-> pb[2]]
      capped == HasScoreCap(v) /\ (ps.pulkit.score >= WinScore(v) \/ ps.harshil.score >= WinScore(v))
  IN [remain |-> remain,
      timedOut |-> timedOut,
      capped |-> capped,
      writes |-> (IF timedOut THEN << ByScore(v, players) >> ELSE << >>)
                \o (IF capped THEN << ByCap(ps) >> ELSE << >>),
      controls |-> [pulkit |-> updateCtrl(controls.pulkit, t),
                    harshil |-> updateCtrl(controls.harshil, t)],
      players |-> ps,
      moved |-> [pulkit |-> pu, harshil |-> hu],
      offered |-> stars1,
      stars |-> c2.items,
      offeredPowers |-> powers1,
      powers |-> t2.items,
      obstacles |-> obstacles1,
      lastStarAt |-> IF spawn THEN t ELSE lastStarAt,
      lastPowerCheck |-> IF try THEN t ELSE lastPowerCheck]

\* The simulation part of a running frame of the joystick variants
\* (part_006 221-272, App.jsx 148-193, part_002 213-271).
Frame(v, t, rnd) ==
  LET remain == Remain(RoundTime(v), t, startedAt)
      timedOut == remain <= 0
      spawn == SpawnsStar(v, t)
      stars1 == IF spawn THEN Append(stars, rnd.star) ELSE stars
      try == TriesPower(v, t)
      powers1 == IF try /\ rnd.coin /\ (HasPowerCap(v) => Len(powers) < MAX_POWERS)
                 THEN Append(powers, [type |-> "boost", x |-> rnd.power.x, y |-> rnd.power.y])
                 ELSE powers
      obstacles1 == MoveObstacles(obstacles)
      pu == updatePlayer(players.pulkit, controls.pulkit, t)
      hu == updatePlayer(players.harshil, controls.harshil, t)
      pc == collideWorldAndObstacles(pu, obstacles1, t)
      hc == collideWorldAndObstacles(hu, obstacles1, t)
      pb == resolvePlayersBounce(pc, hc)
      c1 == collectItems(pb[1], stars1, STAR_R)
      c2 == collectItems(pb[2], c1.items, STAR_R)
      t1 == takePowerups(c1.p, powers1, t)
      t2 == takePowerups(c2.p, t1.items, t)
      ps == [pulkit |-> t1.p, harshil |-> t2.p]
      capped == HasScoreCap(v) /\ (ps.pulkit.score >= WinScore(v) \/ ps.harshil.score >= WinScore(v))
  IN [remain |-> remain,
      timedOut |-> timedOut,
      capped |-> capped,
      writes |-> (IF timedOut THEN << ByScore(v, players) >> ELSE << >>)
                \o (IF capped THEN << ByCap(ps) >> ELSE << >>),
      controls |-> [pulkit |-> updateCtrl(controls.pulkit, t),
                    harshil |-> updateCtrl(controls.harshil, t)],
      players |-> ps,
      moved |-> [pulkit |-> pu, harshil |-> hu],
      offered |-> stars1,
      stars |-> c2.items,
      offeredPowers |-> powers1,
      powers |-> t2.items,
      obstacles |-> obstacles1,
      lastStarAt |-> IF spawn THEN t ELSE lastStarAt,
      lastPowerCheck |-> IF try THEN t ELSE lastPowerCheck]

\* The simulation part of a running frame of the button variant
\* (part_000 151-184).
B_Frame(v, t, rnd) ==
  LET remain == Remain(RoundTime(v), t, startedAt)
      timedOut == remain <= 0
      spawn == SpawnsStar(v, t)
      stars1 == IF spawn THEN Append(stars, rnd.star) ELSE stars
      pu == clampToBounds(B_updatePlayer(players.pulkit, controls.pulkit, t))
      hu == clampToBounds(B_updatePlayer(players.harshil, controls.harshil, t))
      c1 == checkStars(pu, stars1)
      c2 == checkStars(hu, c1.items)
  IN [remain |-> remain,
      timedOut |-> timedOut,
      capped |-> FALSE,
      writes |-> IF timedOut THEN << ByScore(v, players) >> ELSE << >>,
      controls |-> [pulkit |-> B_updateCtrl(controls.pulkit, t),
                    harshil |-> B_updateCtrl(controls.harshil, t)],
      players |-> [pulkit |-> c1.p, harshil |-> c2.p],
      moved |-> [pulkit |-> pu, harshil |-> hu],
      offered |-> stars1,
      stars |-> c2.items,
      offeredPowers |-> powers,
      powers |-> powers,
      obstacles |-> obstacles,
      lastStarAt |-> IF spawn THEN t ELSE lastStarAt,
      lastPowerCheck |-> lastPowerCheck]

\* A frame that simulates whether or not the round is running.
LoopAlways(dt, rnd) ==
  /\ RandStar(variant, rnd.star) /\ RandPower(rnd.power)
  /\ now' = now + dt
  /\ ticks' = ticks + 1
  /\ IF TRUE
     THEN \E f \in { IF variant = "part_000" THEN B_Frame(variant, now + dt, rnd)
                      ELSE Frame(variant, now + dt, rnd) } :
             /\ countdown' = f.remain
             /\ running' = ~(f.timedOut \/ f.capped)
             /\ winner' = IF f.writes = << >> THEN winner ELSE f.writes[Len(f.writes)]
             /\ winnerWrites' = winnerWrites \o f.writes
             /\ controls' = f.controls
             /\ players' = f.players
             /\ stars' = f.stars
             /\ powers' = f.powers
             /\ obstacles' = f.obstacles
             /\ lastStarAt' = f.lastStarAt
             /\ lastPowerCheck' = f.lastPowerCheck
             /\ ev' = [op |-> "loop", ran |-> TRUE, timedOut |-> f.timedOut,
                       capped |-> f.capped, moved |-> f.moved, offered |-> f.offered,
                       offeredPowers |-> f.offeredPowers]
             /\ UNCHANGED << startedAt, showTutorial >>
     ELSE /\ ev' = [op |-> "loop", ran |-> FALSE]
          /\ UNCHANGED << world, ui, controls, winnerWrites >>
  /\ UNCHANGED << variant, rounds, inputs, dashedAt >>

\* A frame dt ms after the previous one.  While `running` is false the
\* frame only draws.  The setRunning / setWinner / setCountdown calls of a
\* frame are committed together when the frame has returned (the closure
\* of the frame keeps reading the `running` it was created with).
Loop(dt, rnd) ==
  /\ RandStar(variant, rnd.star) /\ RandPower(rnd.power)
  /\ now' = now + dt
  /\ ticks' = ticks + 1
  /\ IF running
     THEN \E f \in { IF variant = "part_000" THEN B_Frame(variant, now + dt, rnd)
                      ELSE Frame(variant, now + dt, rnd) } :
             /\ countdown' = f.remain
             /\ running' = ~(f.timedOut \/ f.capped)
             /\ winner' = IF f.writes = << >> THEN winner ELSE f.writes[Len(f.writes)]
             /\ winnerWrites' = winnerWrites \o f.writes
             /\ controls' = f.controls
             /\ players' = f.players
             /\ stars' = f.stars
             /\ powers' = f.powers
             /\ obstacles' = f.obstacles
             /\ lastStarAt' = f.lastStarAt
             /\ lastPowerCheck' = f.lastPowerCheck
             /\ ev' = [op |-> "loop", ran |-> TRUE, timedOut |-> f.timedOut,
                       capped |-> f.capped, moved |-> f.moved, offered |-> f.offered,
                       offeredPowers |-> f.offeredPowers]
             /\ UNCHANGED << startedAt, showTutorial >>
     ELSE /\ ev' = [op |-> "loop", ran |-> FALSE]
          /\ UNCHANGED << world, ui, controls, winnerWrites >>
  /\ UNCHANGED << variant, rounds, inputs, dashedAt >>

(***************************************************************************)
(* Input handlers                                                          *)
(***************************************************************************)
ControlsShown == ControlsWhileRunning(variant) => running

\* `now > c.lastDash + DASH_COOLDOWN`: true for -Infinity, false for NaN
\* (undefined + 900), the comparison of numbers otherwise.
CooldownOver(c, t) ==
  LET last == Field(c, "lastDash")
  IN IF last = NEG_INFINITY THEN TRUE
     ELSE IF last = UNDEFINED THEN FALSE
     ELSE t > last + DASH_COOLDOWN

\* The object after the three assignments of onDash.
Dashed(c, t, untilField) ==
  [f \in DOMAIN c \cup {"lastDash", "dash", untilField} |->
     IF f = "lastDash" THEN t
     ELSE IF f = "dash" THEN TRUE
     ELSE IF f = untilField THEN t + DASH_TIME
     ELSE c[f]]

\* The field that holds the end of the dash window.
UntilField(v) == IF v = "part_000" THEN "dashActiveUntil" ELSE "dashUntil"

\* onDash(id) of the joystick variants; bindTouch(id, "dash", true) of
\* part_000.
OnDash(id) ==
  /\ ControlsShown
  /\ inputs < MaxInputs
  /\ inputs' = inputs + 1
  /\ \E ok \in {CooldownOver(controls[id], now)} :
        /\ controls' = IF ok THEN [controls EXCEPT ![id] = Dashed(@, now, UntilField(variant))]
                        ELSE controls
        /\ dashedAt' = IF ok THEN [dashedAt EXCEPT ![id] = now] ELSE dashedAt
        /\ ev' = [op |-> "onDash", id |-> id, ok |-> ok]
  /\ UNCHANGED << variant, now, world, ui, rounds, ticks, winnerWrites >>

\* What the Joystick component passes to onChange: a vector of length at
\* most 1 (x and y in 1/100).
JoyVector(x, y) == x * x + y * y <= 100 * 100

\* Joystick onChange(x, y) for player id.
OnJoy(id, x, y) ==
  /\ variant # "part_000"
  /\ JoyVector(x, y)
  /\ ControlsShown
  /\ inputs < MaxInputs
  /\ inputs' = inputs + 1
  /\ controls' = [controls EXCEPT ![id] =
                    IF JoyReplaces(variant) THEN [vx |-> x, vy |-> y]
                    ELSE [@ EXCEPT !.vx = x, !.vy = y]]
  /\ ev' = [op |-> "onJoy", id |-> id]
  /\ UNCHANGED << variant, now, world, ui, rounds, ticks, winnerWrites, dashedAt >>

\* bindTouch(player, key, pressed) of part_000 for key "left" or "right"
BindTouch(id, key, pressed) ==
  /\ variant = "part_000"
  /\ key \in {"left", "right"}
  /\ inputs < MaxInputs
  /\ inputs' = inputs + 1
  /\ controls' = [controls EXCEPT ![id][key] = pressed]
  /\ ev' = [op |-> "bindTouch", id |-> id]
  /\ UNCHANGED << variant, now, world, ui, rounds, ticks, winnerWrites, dashedAt >>

(***************************************************************************)
(* Bounded inputs                                                          *)
(***************************************************************************)
Pt(x, y) == [x |-> x, y |-> y]
Obstacle(x, y, vx, vy) == [x |-> x, y |-> y, r |-> OBSTACLE_R, vx |-> vx, vy |-> vy]

PulkitSpawn == Pt(WORLD_W \div 4, (WORLD_H * 78) \div 100)
HarshilSpawn == Pt((WORLD_W * 3) \div 4, (WORLD_H * 22) \div 100)
Centre == Pt(WORLD_W \div 2, WORLD_H \div 2)

\* Five obstacles in the corners, away from both players and from the
\* diagonal between them; the first one runs into the left wall.
CalmLayout ==
  << Obstacle(60000, 100000, -1400, 0),
     Obstacle(100000, 60000, 0, -1200),
     Obstacle(900000, 480000, 1400, 1200),
     Obstacle(860000, 440000, 0, 0),
     Obstacle(880000, 400000, -700, 600) >>

\* Three obstacles stacked on Pulkit's spawn point and below it, two in a
\* corner.
StackLayout ==
  << Obstacle(240000, 421000, 0, 0),
     Obstacle(240000, 455000, 0, 0),
     Obstacle(240000, 480000, 0, 1200),
     Obstacle(860000, 100000, 0, 0),
     Obstacle(900000, 60000, 1400, -1200) >>

\* The random draws of a frame at time t: only the draws the frame makes
\* are varied.
Rnds(t, starSpots, coins, powerSpots) ==
  LET ss == IF running /\ SpawnsStar(variant, t) THEN starSpots ELSE {Centre}
      cs == IF running /\ TriesPower(variant, t) THEN coins ELSE {FALSE}
  IN UNION { { [star |-> s, coin |-> c, power |-> q] :
                 q \in IF c THEN powerSpots ELSE {Centre} } : s \in ss, c \in cs }

(***************************************************************************)
(* Spec: a few frames far apart in time, with joystick, button and dash   *)
(* events in between, for every variant.                                   *)
(***************************************************************************)
DtSet == {100, 901, 5100}
JoySet == {<<0, 0>>, <<100, 0>>}

Init == InitFor(Variants, {0})

Start == \E l \in {CalmLayout} : StartGame(l)

Tick ==
  \E dt \in DtSet : \E rnd \in Rnds(now + dt, {Centre}, BOOLEAN, {PulkitSpawn}) :
     ticks < MaxTicks /\ Loop(dt, rnd)

Dash == \E id \in IDS : OnDash(id)

Joy == \E id \in IDS : \E v \in JoySet : OnJoy(id, v[1], v[2])

Touch == \E id \in IDS : \E key \in {"left", "right"} : BindTouch(id, key, ~controls[id][key])

Next == Start \/ Tick \/ Dash \/ Joy \/ Touch

Spec == Init /\ [][Next]_vars

(***************************************************************************)
(* SpecRace: the players stand still and stars appear on top of them, one  *)
(* frame a good second after the other, until the score cap or the timer   *)
(* ends the round.                                                         *)
(***************************************************************************)
RaceVariants == {"part_006", "App", "part_000"}
RaceDtSet == IF running THEN {1100, 74000} ELSE {1100}
RaceStarSpots == {Pt(Spawn(variant).pulkit.x, Spawn(variant).pulkit.y),
                  Pt(Spawn(variant).harshil.x, Spawn(variant).harshil.y)}

RaceInit == InitFor(RaceVariants, {0})

RaceTick ==
  \E dt \in RaceDtSet : \E rnd \in Rnds(now + dt, RaceStarSpots, {FALSE}, {Centre}) :
     ticks < RaceTicks /\ Loop(dt, rnd)

RaceNext == Start \/ RaceTick

SpecRace == RaceInit /\ [][RaceNext]_vars

(***************************************************************************)
(* SpecArena: a round of part_006 at 60 frames a second, followed from     *)
(* its startGame; the players run towards the centre of the arena, where   *)
(* a star lies, or stand among the obstacles.                              *)
(***************************************************************************)
ArenaDt == 1000 \div 60
ArenaClocks == {1500}
\* the joystick of each player pushed towards the centre of the arena
Towards == [pulkit |-> <<84, -53>>, harshil |-> <<-84, 53>>]

ArenaInit == InitFor({"part_006"}, ArenaClocks)

ArenaStart == \E l \in {CalmLayout, StackLayout} : StartGame(l)

ArenaTick ==
  \E rnd \in Rnds(now + ArenaDt, {Centre}, {FALSE}, {Centre}) :
     rounds > 0 /\ ticks < ArenaTicks /\ Loop(ArenaDt, rnd)

ArenaJoy == \E id \in IDS : OnJoy(id, Towards[id][1], Towards[id][2])

ArenaNext == ArenaStart \/ ArenaTick \/ ArenaJoy

SpecArena == ArenaInit /\ [][ArenaNext]_vars

(***************************************************************************)
(* SpecStock: the players stand still and nothing is collected: stars and  *)
(* power-ups appear at the centre of the arena and pile up.                *)
(***************************************************************************)
StockDtSet == {1100, 5100}

StockInit == InitFor(Variants, {0})

StockTick ==
  \E dt \in StockDtSet : \E rnd \in Rnds(now + dt, {Centre}, BOOLEAN, {Centre}) :
     ticks < StockTicks /\ Loop(dt, rnd)

StockNext == Start \/ StockTick

SpecStock == StockInit /\ [][StockNext]_vars

(***************************************************************************)
(* SpecTie: part_006 with a star lying just out of Pulkit's reach while    *)
(* the other stars appear on the players; Pulkit may set off to the right  *)
(* and pick it up in a frame in which Harshil collects a star as well.     *)
(* The round is followed from its startGame.                               *)
(***************************************************************************)
TieDtSet == {1100}
\* 24 px to the right of Pulkit's spawn point: 1 px beyond his threshold
NearPulkit == Pt(PulkitSpawn.x + 24 * UNIT, PulkitSpawn.y)
\* the first star of a round may fall next to Pulkit, the later ones fall
\* on the spawn point of a player who is not ahead
TieStarSpots ==
  IF lastStarAt = 0 THEN {NearPulkit, HarshilSpawn}
  ELSE { q \in {PulkitSpawn, HarshilSpawn} :
           \/ q = PulkitSpawn /\ players.pulkit.score <= players.harshil.score
           \/ q = HarshilSpawn /\ players.harshil.score <= players.pulkit.score }

TieInit == InitFor({"part_006"}, {0})

TieTick ==
  \E dt \in TieDtSet : \E rnd \in Rnds(now + dt, TieStarSpots, {FALSE}, {Centre}) :
     rounds > 0 /\ ticks < TieTicks /\ Loop(dt, rnd)

TieJoy == OnJoy("pulkit", 100, 0)

TieNext == Start \/ TieTick \/ TieJoy

SpecTie == TieInit /\ [][TieNext]_vars

(***************************************************************************)
(* SpecDash: Pulkit alone plays: he pushes the joystick to the right and   *)
(* presses dash, with frames a tenth of a second or five seconds apart; a  *)
(* power-up that appears falls on his spawn point.                         *)
(***************************************************************************)
DashDtSet == {100, 5100}

DashInit == InitFor({"part_006", "App"}, {0})

DashTick ==
  \E dt \in DashDtSet : \E rnd \in Rnds(now + dt, {Centre}, BOOLEAN, {PulkitSpawn}) :
     ticks < DashTicks /\ Loop(dt, rnd)

DashJoy == OnJoy("pulkit", 100, 0)

DashPress == OnDash("pulkit")

DashNext == Start \/ DashTick \/ DashJoy \/ DashPress

SpecDash == DashInit /\ [][DashNext]_vars

(***************************************************************************)
(* SpecBounce: the two collision helpers applied to bounded placements.    *)
(* Pulkit stands in the centre of the arena, Harshil and one obstacle at   *)
(* an offset from there; each step is one call of a helper.                *)
(***************************************************************************)
\* Offsets of Harshil from Pulkit per axis: none, 1 px, inside, on and
\* outside the contact distance 2 * PLAYER_R.
BounceOffsets ==
  {-2 * PLAYER_R, -20 * UNIT, -UNIT, 0, UNIT, 12 * UNIT, 24 * UNIT, 2 * PLAYER_R, 40 * UNIT}

\* Offsets of the obstacle from Pulkit: on the player, inside, on and outside
\* the contact distance PLAYER_R + OBSTACLE_R.
ObstacleOffsets ==
  { Pt(0, 0), Pt(20 * UNIT, -10 * UNIT), Pt(PLAYER_R + OBSTACLE_R, 0), Pt(60 * UNIT, 0) }

BounceVelocities == { Pt(0, 0), Pt(1500, -700) }

Placed(at, v) == [initPlayer(at.x, at.y) EXCEPT !.vx = v.x, !.vy = v.y]

BounceInit ==
  /\ variant = "part_006"
  /\ now = 0
  /\ running = TRUE
  /\ winner = NULL
  /\ countdown = RoundTime(variant)
  /\ showTutorial = FALSE
  /\ controls = [id \in IDS |-> InitCtrl(variant)]
  /\ \E dx \in BounceOffsets, dy \in BounceOffsets, va \in BounceVelocities, vb \in BounceVelocities :
        players = [pulkit |-> Placed(Centre, va),
                   harshil |-> Placed(Pt(Centre.x + dx, Centre.y + dy), vb)]
  /\ stars = << >>
  /\ powers = << >>
  /\ \E o \in ObstacleOffsets :
        obstacles = << Obstacle(Centre.x + o.x, Centre.y + o.y, 0, 0) >>
  /\ startedAt = 0
  /\ lastStarAt = 0
  /\ lastPowerCheck = 0
  /\ rounds = 1
  /\ ticks = 0
  /\ inputs = 0
  /\ winnerWrites = << >>
  /\ dashedAt = [id \in IDS |-> NEG_INFINITY]
  /\ ev = [op |-> "init"]

\* `resolvePlayersBounce(s.players.pulkit, s.players.harshil)`
Bounce ==
  /\ ticks < BounceSteps
  /\ ticks' = ticks + 1
  /\ \E pb \in { resolvePlayersBounce(players.pulkit, players.harshil) } :
        players' = [pulkit |-> pb[1], harshil |-> pb[2]]
  /\ ev' = [op |-> "bounce", before |-> players]
  /\ UNCHANGED << variant, now, running, winner, countdown, showTutorial, controls,
                  stars, powers, obstacles, startedAt, lastStarAt, lastPowerCheck,
                  rounds, inputs, winnerWrites, dashedAt >>

\* `collideWorldAndObstacles(s.players[id], s.obstacles)`
Collide(id) ==
  /\ ticks < BounceSteps
  /\ ticks' = ticks + 1
  /\ players' = [players EXCEPT ![id] = collideWorldAndObstacles(@, obstacles, now)]
  /\ ev' = [op |-> "collide", id |-> id, before |-> players]
  /\ UNCHANGED << variant, now, running, winner, countdown, showTutorial, controls,
                  stars, powers, obstacles, startedAt, lastStarAt, lastPowerCheck,
                  rounds, inputs, winnerWrites, dashedAt >>

CollidePulkit == Collide("pulkit")

CollideHarshil == Collide("harshil")

BounceNext == Bounce \/ CollidePulkit \/ CollideHarshil

SpecBounce == BounceInit /\ [][BounceNext]_vars

(***************************************************************************)
(* SpecOrder: frames in which obstacles push Pulkit away from the place    *)
(* the player moved to, with stars and power-ups appearing at the old and  *)
(* at the new place.                                                        *)
(***************************************************************************)
OrderDtSet == {5100}

\* The point below the obstacles stacked on Pulkit's spawn point, at the
\* given distance from the bottom wall.
BelowStack(margin) == Pt(PulkitSpawn.x, WORLD_H - margin)

OrderStarSpots == {PulkitSpawn, BelowStack(41 * UNIT)}

OrderPowerSpots == {PulkitSpawn, BelowStack(50 * UNIT)}

OrderInit == InitFor({"part_006", "App"}, {0})

OrderStart == \E l \in {CalmLayout, StackLayout} : StartGame(l)

OrderTick ==
  \E dt \in OrderDtSet : \E rnd \in Rnds(now + dt, OrderStarSpots, BOOLEAN, OrderPowerSpots) :
     rounds > 0 /\ ticks < OrderTicks /\ Loop(dt, rnd)

OrderJoy == OnJoy("pulkit", 0, 100)

OrderNext == OrderStart \/ OrderTick \/ OrderJoy

SpecOrder == OrderInit /\ [][OrderNext]_vars

(***************************************************************************)
(* SpecShare: both players steer to the centre of the arena, where a star  *)
(* and a power-up of the first frame lie.                                   *)
(***************************************************************************)
ShareInit == InitFor({"part_006"}, {POWER_CHANCE_MS})

ShareTick ==
  \E rnd \in Rnds(now + ArenaDt, {Centre}, {TRUE}, {Centre}) :
     rounds > 0 /\ ticks < ArenaTicks /\ Loop(ArenaDt, rnd)

ShareNext == Start \/ ShareTick \/ ArenaJoy

SpecShare == ShareInit /\ [][ShareNext]_vars

(***************************************************************************)
(* SpecTake: takePowerups applied to bounded worlds.  The players stand    *)
(* 40 px apart, with or without a running boost, and up to two power-ups   *)
(* lie on a player, between the players or out of reach.                   *)
(***************************************************************************)
HarshilPlace == Pt(Centre.x + 40 * UNIT, Centre.y)

Boost(at) == [type |-> "boost", x |-> at.x, y |-> at.y]

\* The lists of up to two power-ups lying on Pulkit, between the players, on
\* Harshil or far from both.
PowerLists ==
  LET spots == { Centre, Pt(Centre.x + 20 * UNIT, Centre.y), HarshilPlace, PulkitSpawn }
  IN { << >> } \cup { << Boost(q) >> : q \in spots }
               \cup { << Boost(q), Boost(r) >> : q \in spots, r \in spots }

TakeInit ==
  /\ variant = "part_006"
  /\ now = 2 * POWER_CHANCE_MS
  /\ running = TRUE
  /\ winner = NULL
  /\ countdown = RoundTime(variant)
  /\ showTutorial = FALSE
  /\ controls = [id \in IDS |-> InitCtrl(variant)]
  /\ \E ba \in {0, now + 2000}, bb \in {0, now + 2000}, sc \in {0, 3} :
        players = [pulkit |-> [initPlayer(Centre.x, Centre.y) EXCEPT !.boostUntil = ba, !.score = sc],
                   harshil |-> [initPlayer(HarshilPlace.x, HarshilPlace.y) EXCEPT !.boostUntil = bb]]
  /\ stars = << >>
  /\ powers \in PowerLists
  /\ obstacles = CalmLayout
  /\ startedAt = 0
  /\ lastStarAt = 0
  /\ lastPowerCheck = now
  /\ rounds = 1
  /\ ticks = 0
  /\ inputs = 0
  /\ winnerWrites = << >>
  /\ dashedAt = [id \in IDS |-> NEG_INFINITY]
  /\ ev = [op |-> "init"]

\* `takePowerups(s.players[id], s.powers)`
Take(id) ==
  /\ ticks < TakeSteps
  /\ ticks' = ticks + 1
  /\ \E r \in { takePowerups(players[id], powers, now) } :
        /\ players' = [players EXCEPT ![id] = r.p]
        /\ powers' = r.items
  /\ ev' = [op |-> "take", id |-> id, before |-> players, offeredPowers |-> powers]
  /\ UNCHANGED << variant, now, running, winner, countdown, showTutorial, controls,
                  stars, obstacles, startedAt, lastStarAt, lastPowerCheck,
                  rounds, inputs, winnerWrites, dashedAt >>

TakeNext == \E id \in IDS : Take(id)

SpecTake == TakeInit /\ [][TakeNext]_vars

(***************************************************************************)
(* SpecPinch: the frames of SpecOrder in a round whose first two obstacles *)
(* lie 20 px to the left and to the right of Pulkit's spawn point.         *)
(***************************************************************************)
PinchLayout ==
  << Obstacle(PulkitSpawn.x - 20 * UNIT, PulkitSpawn.y, 0, 0),
     Obstacle(PulkitSpawn.x + 20 * UNIT, PulkitSpawn.y, 0, 0),
     Obstacle(900000, 480000, 1400, 1200),
     Obstacle(860000, 440000, 0, 0),
     Obstacle(880000, 400000, -700, 600) >>

PinchStart == StartGame(PinchLayout)

PinchNext == PinchStart \/ OrderTick \/ OrderJoy

SpecPinch == OrderInit /\ [][PinchNext]_vars

(***************************************************************************)
(* Properties                                                              *)
(***************************************************************************)
AfterFrame == ev.op = "loop" /\ ev.ran

InsideWalls(p) ==
  /\ PLAYER_R <= p.x /\ p.x <= WorldW(variant) - PLAYER_R
  /\ PLAYER_R <= p.y /\ p.y <= WORLD_H - PLAYER_R

\* C1: after every frame processed while the round is running, both players
\* lie inside the arena: PLAYER_R <= x <= WORLD_W - PLAYER_R and
\* PLAYER_R <= y <= WORLD_H - PLAYER_R, whatever the joystick input, dash or
\* boost state and collisions of that frame.
C1_PlayersInsideWalls ==
  AfterFrame => \A id \in IDS : InsideWalls(players[id])

\* A step that is a frame processed while the round is running.
FrameStep == running /\ ticks' = ticks + 1

Other(id) == IF id = "pulkit" THEN "harshil" ELSE "pulkit"

\* The collection test of the variant: collectItems or checkStars.
Reaches(p, star) ==
  IF variant = "part_000" THEN B_InReach(p, star) ELSE InReach(p, star, STAR_R)

Gain(id) == players'[id].score - players[id].score

\* C2: during a round a player's score never decreases, and in a frame the
\* scores grow by exactly the number of stars removed from the world in that
\* frame, for each player by no more than the number of stars within the
\* collection threshold of that player.
C2_ScoreGrowth ==
  [][ /\ rounds' = rounds => \A id \in IDS : Gain(id) >= 0
      /\ FrameStep =>
           LET off == ev'.offered
               near(id) == { i \in DOMAIN off : Reaches(players'[id], off[i]) }
           IN /\ Gain("pulkit") + Gain("harshil") = Len(off) - Len(stars')
              /\ Gain("pulkit") = Cardinality(near("pulkit"))
              /\ Gain("harshil") = Cardinality(near("harshil") \ near("pulkit"))
      /\ ~FrameStep => stars' = stars ]_vars

C2_Witness ==
  /\ AfterFrame /\ running
  /\ Len(stars) < Len(ev.offered)
  /\ players.pulkit.score >= 1 /\ players.harshil.score >= 2

\* C3: in every round winner goes from null to its final value by exactly
\* one assignment, also in the frame in which the timer reaches 0 and a
\* player reaches WIN_SCORE.
C3_OneAssignment ==
  /\ Len(winnerWrites) <= 1
  /\ winner = NULL <=> winnerWrites = << >>

\* C4: the first running frame whose elapsed time since startedAt is at
\* least ROUND_TIME seconds ends the round, and winner is the player with
\* the strictly greater score of those the timer compares, or Draw when they
\* are equal (Draw with 0 : 0 when no star was ever collected); the timer
\* ends no round at a frame with less elapsed time.
C4_TimerEnd ==
  [][ FrameStep =>
        IF now' - startedAt >= RoundTime(variant) * 1000
        THEN /\ ~running'
             /\ winner' = ByScore(variant, players)
             /\ (players.pulkit.score = 0 /\ players.harshil.score = 0) =>
                   winner' = Name(variant, "Draw")
        ELSE /\ ~ev'.timedOut
             /\ running' \/ ev'.capped ]_vars

\* C5: in the score-cap variant, the frame in which a player's score first
\* reaches WIN_SCORE while the other's is below it ends the round with that
\* player as winner.
C5_ScoreCap ==
  [][ (FrameStep /\ variant = "part_006") =>
        \A id \in IDS :
           ( /\ players[id].score < WinScore(variant)
             /\ players'[id].score >= WinScore(variant)
             /\ players'[Other(id)].score < WinScore(variant) )
           => ~running' /\ winner' = Name(variant, IF id = "pulkit" THEN "Pulkit" ELSE "Harshil") ]_vars

C5_Witness ==
  /\ AfterFrame /\ ev.capped /\ ~ev.timedOut
  /\ players.harshil.score = WinScore(variant)
  /\ players.pulkit.score = WinScore(variant) - 1
  /\ ~running /\ winner = "Harshil"

\* C6: part_000 and App.jsx promise "first to WIN_SCORE wins": no frame of
\* a running round leaves a player with a score of WIN_SCORE or more and
\* winner unset.
C6_FirstToWinScore ==
  (AfterFrame /\ variant \in {"part_000", "App"}) =>
     ((\E id \in IDS : players[id].score >= WinScore(variant)) => winner # NULL)

\* C7: a star that lies within the collection threshold of both players in
\* the same frame is removed from the world once and raises exactly one
\* player's score by one; no star within reach of a player stays in the
\* world to be collected again in a later frame.
C7_SharedStar ==
  [][ FrameStep =>
        LET off == ev'.offered
            near(id) == { i \in DOMAIN off : Reaches(players'[id], off[i]) }
        IN (near("pulkit") \cap near("harshil") # {}) =>
             /\ Gain("pulkit") + Gain("harshil") = Cardinality(near("pulkit") \cup near("harshil"))
             /\ Len(stars') = Len(off) - Cardinality(near("pulkit") \cup near("harshil"))
             /\ \A k \in DOMAIN stars' : \A id \in IDS : ~Reaches(players'[id], stars'[k]) ]_vars

C7_Witness ==
  /\ AfterFrame
  /\ \E i \in DOMAIN ev.offered : \A id \in IDS : Reaches(players[id], ev.offered[i])
  /\ stars = << >>
  /\ players.pulkit.score + players.harshil.score = 1

\* C8: a dash request made at a time <= lastDash + DASH_COOLDOWN changes
\* nothing, and a request made later than that (or before any dash) sets
\* lastDash = now, dash = true and dashUntil = now + DASH_TIME, whatever
\* frames and joystick events of that player came between the requests.
C8_DashGate ==
  [][ \A id \in IDS :
        (inputs' = inputs + 1 /\ ev'.op = "onDash" /\ ev'.id = id /\ variant # "part_000") =>
           IF dashedAt[id] # NEG_INFINITY /\ now <= dashedAt[id] + DASH_COOLDOWN
           THEN controls' = controls
           ELSE /\ Field(controls'[id], "lastDash") = now
                /\ Field(controls'[id], "dash") = TRUE
                /\ Field(controls'[id], "dashUntil") = now + DASH_TIME ]_vars

\* C9: an obstacle whose move takes its centre beyond [r, WORLD_W - r]
\* (or [r, WORLD_H - r]) has the sign of vx (or vy) flipped in that frame,
\* and after the frame its centre lies within [r, WORLD_W - r] x
\* [r, WORLD_H - r].
C9_ObstacleReflect ==
  [][ FrameStep =>
        \A i \in DOMAIN obstacles :
           LET o == obstacles[i]
               o2 == obstacles'[i]
           IN /\ (o.x + o.vx < o.r \/ o.x + o.vx > WORLD_W - o.r) => o2.vx = -o.vx
              /\ (o.y + o.vy < o.r \/ o.y + o.vy > WORLD_H - o.r) => o2.vy = -o.vy
              /\ o.r <= o2.x /\ o2.x <= WORLD_W - o.r
              /\ o.r <= o2.y /\ o2.y <= WORLD_H - o.r ]_vars

\* C10: immediately after startGame (part_002) both players are at their
\* spawn points with zero velocity and zero score, without an active boost
\* (now >= boostUntil) and without an active dash (now >= dashUntil).
C10_FreshRound ==
  (ev.op = "startGame" /\ variant = "part_002") =>
     \A id \in IDS :
        /\ players[id].x = Spawn(variant)[id].x /\ players[id].y = Spawn(variant)[id].y
        /\ players[id].vx = 0 /\ players[id].vy = 0
        /\ players[id].score = 0
        /\ now >= players[id].boostUntil
        /\ now >= OrZero(Field(controls[id], "dashUntil"))

\* C11: from every reachable state the user can invoke startGame; in
\* particular (src/src/App.jsx) a new round can be started after a round has
\* ended with a winner.
C11_CanRestart ==
  (rounds > 0 /\ ~running /\ winner # NULL) => CanStart

\* C12: in every reachable state the number of stars in the world is at
\* most MAX_STARS (5 in part_000), and a frame adds at most one star.
C12_StarLimit ==
  /\ [](Len(stars) <= MaxStars(variant))
  /\ [][Len(stars') <= Len(stars) + 1]_vars

\* a frame in which a spawn was due and the full list refused it
C12_Witness ==
  /\ AfterFrame /\ running
  /\ Len(stars) = MAX_STARS
  /\ now - lastStarAt > StarRespawn(variant)

\* C13: in every reachable state at most 2 power-ups are present in the
\* world at the same time, however long the round runs and however few
\* power-ups the players collect.
C13_PowerLimit ==
  Len(powers) <= MAX_POWERS

\* C14: after startGame the world holds exactly OBSTACLE_COUNT obstacles
\* (joystick variants), and no frame of the round adds or removes one: the
\* count stays OBSTACLE_COUNT until the next startGame.
C14_ObstacleCount ==
  /\ []((rounds > 0 /\ variant # "part_000") => Len(obstacles) = OBSTACLE_COUNT)
  /\ [][rounds' = rounds => Len(obstacles') = Len(obstacles)]_vars

C14_Witness ==
  /\ AfterFrame /\ variant = "part_006"
  /\ Len(obstacles) = OBSTACLE_COUNT
  /\ obstacles # CalmLayout

\* C15: after a successful dash the first running frame with
\* now >= dashUntil sets the control flag dash of that player to false:
\* dash = true never outlives the first frame after the dash window.
C15_DashFlagCleared ==
  AfterFrame =>
     \A id \in IDS :
        Field(controls[id], "dash") = TRUE =>
           now < OrZero(Field(controls[id], UntilField(variant)))

\* C16: when both players reach WIN_SCORE in the same frame with equal
\* scores, the round ends in a draw, not in a win for either player.
C16_TieIsDraw ==
  ( /\ AfterFrame /\ ev.capped
    /\ players.pulkit.score = players.harshil.score
    /\ players.pulkit.score >= WinScore(variant) )
  => ~running /\ winner = Name(variant, "Draw")

\* The speed the claim C17 prescribes for player p with control object c in
\* a frame at time t.
PrescribedSpeed(p, c, t) ==
  IF t < OrZero(Field(c, "dashUntil")) THEN DASH_BOOST
  ELSE IF t < p.boostUntil THEN BOOST_SPEED
  ELSE BASE_SPEED

\* No obstacle and no player pushed player id in the step.
Unhindered(id) ==
  /\ players'[id].hitTintUntil = players[id].hitTintUntil
  /\ ~Within(players'.pulkit.x - players'.harshil.x,
             players'.pulkit.y - players'.harshil.y, 2 * PLAYER_R + UNIT, FALSE)

\* C17: the speed updatePlayer uses in a frame is DASH_BOOST when
\* now < ctrl.dashUntil, otherwise BOOST_SPEED when now < p.boostUntil,
\* otherwise BASE_SPEED, for every combination of dash and boost state (a
\* dash takes precedence over a boost); the velocity of the frame is the
\* old velocity plus joystick * speed * 0.55, times FRICTION.
C17_SpeedChoice ==
  [][ (FrameStep /\ variant # "part_000") =>
        \A id \in IDS :
           LET p == players[id]
               c == controls[id]
               sp == PrescribedSpeed(p, c, now')
           IN /\ Speed(p, c, now') = sp
              /\ Unhindered(id) =>
                   /\ players'[id].vx = RoundDiv((p.vx + RoundDiv(c.vx * sp * 55, 10000)) * FRICTION, 100)
                   /\ players'[id].vy = RoundDiv((p.vy + RoundDiv(c.vy * sp * 55, 10000)) * FRICTION, 100) ]_vars

\* a frame that moved Pulkit from rest while both his dash and his boost
\* were active: the velocity is 1 * DASH_BOOST * 0.55 * FRICTION
C17_Witness ==
  /\ AfterFrame
  /\ now < OrZero(Field(controls.pulkit, "dashUntil"))
  /\ now < players.pulkit.boostUntil
  /\ players.pulkit.vx = RoundDiv(RoundDiv(100 * DASH_BOOST * 55, 10000) * FRICTION, 100)

\* The centres of a and b are closer than two radii.
Touching(a, b) == Within(b.x - a.x, b.y - a.y, 2 * PLAYER_R, TRUE)

Apart(a, b) == a.x # b.x \/ a.y # b.y

\* The error of a vector of length len along a line whose length d is known
\* as floor(d): the relative error 1 / d of the distance, and the rounding
\* of the two coordinates.
Slack(len, dist) == len \div dist + 2

\* (vx, vy) points along (dx, dy) and has length len, up to the given slack.
Along(vx, vy, dx, dy, len, slack) ==
  /\ Abs(vx * dy - vy * dx) <= 2 * (Abs(dx) + Abs(dy))
  /\ vx * dx + vy * dy > 0
  /\ (len - slack) * (len - slack) <= vx * vx + vy * vy
  /\ vx * vx + vy * vy <= (len + slack) * (len + slack)

\* C18: when resolvePlayersBounce is called with the centres at a distance d,
\* 0 < d < 2 * PLAYER_R, each player moves by half of the penetration
\* 2 * PLAYER_R - d + 0.01 along the line joining the centres, a away from b
\* and b away from a, and the velocities get opposite impulses of magnitude
\* 0.8 along that line; the midpoint of the positions and the sum of the
\* velocities are unchanged and the centres are at least 2 * PLAYER_R apart
\* afterwards.  When d >= 2 * PLAYER_R the call changes nothing.
C18_PlayersBounce ==
  ev.op = "bounce" =>
    LET a0 == ev.before.pulkit
        b0 == ev.before.harshil
        a1 == players.pulkit
        b1 == players.harshil
        dx == b0.x - a0.x
        dy == b0.y - a0.y
    IN IF Touching(a0, b0) /\ Apart(a0, b0)
       THEN /\ Along(2 * (b1.x - b0.x), 2 * (b1.y - b0.y), dx, dy,
                     2 * PLAYER_R - Hypot(dx, dy) + EPSILON,
                     Slack(2 * PLAYER_R + EPSILON, Hypot(dx, dy)))
            /\ a1.x - a0.x = -(b1.x - b0.x)
            /\ a1.y - a0.y = -(b1.y - b0.y)
            /\ Along(b1.vx - b0.vx, b1.vy - b0.vy, dx, dy, PLAYER_KNOCK,
                     Slack(PLAYER_KNOCK, Hypot(dx, dy)))
            /\ a1.vx - a0.vx = -(b1.vx - b0.vx)
            /\ a1.vy - a0.vy = -(b1.vy - b0.vy)
            /\ a1.x + b1.x = a0.x + b0.x
            /\ a1.y + b1.y = a0.y + b0.y
            /\ a1.vx + b1.vx = a0.vx + b0.vx
            /\ a1.vy + b1.vy = a0.vy + b0.vy
            /\ ~Touching(a1, b1)
       ELSE Apart(a0, b0) => players = ev.before

\* A bounce of two moving players that overlapped on a slanted line.
C18_Witness ==
  /\ ev.op = "bounce"
  /\ Touching(ev.before.pulkit, ev.before.harshil)
  /\ ev.before.harshil.x - ev.before.pulkit.x = 12 * UNIT
  /\ ev.before.harshil.y - ev.before.pulkit.y = -20 * UNIT
  /\ ev.before.pulkit.vx # 0
  /\ ev.before.harshil.vx # 0
  /\ ~Touching(players.pulkit, players.harshil)

\* The centre of player p lies exactly on the centre of obstacle o.
OnCentre(p, o) == p.x = o.x /\ p.y = o.y

SameMotion(p, q) == p.x = q.x /\ p.y = q.y /\ p.vx = q.vx /\ p.vy = q.vy

\* C19: a collision step between two centres that coincide exactly ends
\* with numbers for every coordinate and leaves positions and velocities as
\* they were: resolvePlayersBounce for two players on the same point changes
\* neither player, and collideWorldAndObstacles for a player on the centre
\* of an obstacle (and out of reach of every other obstacle) leaves the
\* player's position and velocity unchanged.
C19_CoincidentCentres ==
  /\ (ev.op = "bounce" /\ ~Apart(ev.before.pulkit, ev.before.harshil))
        => players = ev.before
  /\ (ev.op = "collide" /\ \A i \in 1..Len(obstacles) :
                               \/ OnCentre(ev.before[ev.id], obstacles[i])
                               \/ ~Within(ev.before[ev.id].x - obstacles[i].x,
                                          ev.before[ev.id].y - obstacles[i].y,
                                          PLAYER_R + obstacles[i].r, TRUE))
        => /\ SameMotion(players[ev.id], ev.before[ev.id])
           /\ players[Other(ev.id)] = ev.before[Other(ev.id)]
           /\ \A id \in IDS : players[id].x \in Int /\ players[id].vx \in Int

\* Pulkit was first collided with an obstacle on the same centre (which set
\* the hit tint) and then bounced against Harshil standing on the same point.
C19_Witness ==
  /\ ev.op = "bounce"
  /\ ~Apart(ev.before.pulkit, ev.before.harshil)
  /\ OnCentre(players.pulkit, obstacles[1])
  /\ players.pulkit.hitTintUntil = now + HIT_TINT_MS
  /\ players.pulkit.vx # 0

\* The items of a list out of reach of both players where they are now.
OutOfReach(items, r) ==
  SelectSeq(items, LAMBDA it : \A id \in IDS : ~InReach(players[id], it, r))

\* The players after the obstacle collisions and the bounce of a frame whose
\* integration step left them at `moved`.
Resolved(moved) ==
  resolvePlayersBounce(collideWorldAndObstacles(moved.pulkit, obstacles, now),
                       collideWorldAndObstacles(moved.harshil, obstacles, now))

\* C20: in a frame of a running round the stars and power-ups that were in
\* the world after the spawn step are picked up exactly when they lie within
\* the threshold of a player's position at the end of the frame, and that
\* position is the one the obstacle collisions and the player-vs-player
\* bounce make of the position after integration: what is left in the world
\* are the offered items out of reach of both final positions.
C20_PickupAfterCollision ==
  (AfterFrame /\ variant # "part_000") =>
    /\ stars = OutOfReach(ev.offered, STAR_R)
    /\ powers = OutOfReach(ev.offeredPowers, POWER_R)
    /\ SameMotion(players.pulkit, Resolved(ev.moved)[1])
    /\ SameMotion(players.harshil, Resolved(ev.moved)[2])

\* A frame in which the obstacles pushed Pulkit onto a star and a power-up
\* spawned in that frame, both out of reach of where Pulkit had moved to.
C20_Witness ==
  /\ AfterFrame
  /\ Len(ev.offered) = 1 /\ stars = << >>
  /\ Len(ev.offeredPowers) = 1 /\ powers = << >>
  /\ ~InReach(ev.moved.pulkit, ev.offered[1], STAR_R)
  /\ ~InReach(ev.moved.pulkit, ev.offeredPowers[1], POWER_R)
  /\ players.pulkit.score = 1
  /\ players.pulkit.boostUntil > now

\* The items of a list within reach of both players / of Harshil only, at
\* the positions the players have after the step.
Shared(items, r) ==
  { i \in DOMAIN items : \A id \in IDS : InReach(players'[id], items[i], r) }

HarshilOnly(items, r) ==
  { i \in DOMAIN items : /\ InReach(players'.harshil, items[i], r)
                          /\ ~InReach(players'.pulkit, items[i], r) }

\* C21: a star or power-up within the collection threshold of both players
\* in the same frame goes to pulkit, whose pickup calls come first: pulkit's
\* score counts every shared star and harshil's only the stars out of
\* pulkit's reach; a shared power-up sets pulkit's boostUntil, and harshil's
\* stays as it was unless harshil has a power-up of their own in reach.
C21_PulkitFirst ==
  [][ (FrameStep /\ variant # "part_000") =>
        /\ Shared(ev'.offered, STAR_R) # {} =>
              /\ Gain("pulkit") >= Cardinality(Shared(ev'.offered, STAR_R))
              /\ Gain("harshil") = Cardinality(HarshilOnly(ev'.offered, STAR_R))
        /\ Shared(ev'.offeredPowers, POWER_R) # {} =>
              /\ players'.pulkit.boostUntil = now' + BOOST_DURATION
              /\ HarshilOnly(ev'.offeredPowers, POWER_R) = {} =>
                    players'.harshil.boostUntil = players.harshil.boostUntil ]_vars

\* A frame that left both players within reach of the only star: pulkit has
\* the point, harshil none; the only power-up, which lay on the same spot
\* and has the wider threshold, went to pulkit in an earlier frame.
C21_Witness ==
  /\ AfterFrame
  /\ Len(ev.offered) = 1
  /\ \A id \in IDS : InReach(players[id], ev.offered[1], STAR_R)
  /\ stars = << >> /\ powers = << >>
  /\ players.pulkit.score = 1 /\ players.harshil.score = 0
  /\ players.pulkit.boostUntil > now
  /\ players.harshil.boostUntil = 0

\* C22: a takePowerups call for a player removes from the world exactly the
\* power-ups within the threshold of that player, and if there is one sets
\* the player's boostUntil to now + BOOST_DURATION, whatever boost was
\* running; the player's score, position and velocity, and the other player
\* altogether, are unchanged.
C22_TakePowerups ==
  ev.op = "take" =>
    LET me == ev.before[ev.id]
        near == { i \in DOMAIN ev.offeredPowers : InReach(me, ev.offeredPowers[i], POWER_R) }
    IN /\ powers = SelectSeq(ev.offeredPowers, LAMBDA pw : ~InReach(me, pw, POWER_R))
       /\ players[ev.id].boostUntil = IF near # {} THEN now + BOOST_DURATION ELSE me.boostUntil
       /\ players[ev.id].score = me.score
       /\ SameMotion(players[ev.id], me)
       /\ players[Other(ev.id)] = ev.before[Other(ev.id)]

\* Harshil, with a boost that had 2 s left, took one of two power-ups and the
\* boost now lasts BOOST_DURATION from now; Pulkit's boost is as it was.
C22_Witness ==
  /\ ev.op = "take" /\ ev.id = "harshil"
  /\ ev.before.harshil.boostUntil > now
  /\ Len(ev.offeredPowers) = 2 /\ Len(powers) = 1
  /\ players.harshil.boostUntil = now + BOOST_DURATION
  /\ players.pulkit.boostUntil = ev.before.pulkit.boostUntil
  /\ players.pulkit.score = 3

\* C23: a running frame appends one star exactly when the world holds fewer
\* than MAX_STARS stars and more than STAR_RESPAWN_MS have passed since
\* lastStarAt, and then sets lastStarAt to the time of the frame; otherwise
\* it adds no star and leaves lastStarAt alone.  Besides, only startGame
\* writes lastStarAt (to 0).  Hence two spawns of a round are more than
\* STAR_RESPAWN_MS apart, and below MAX_STARS the first frame later than
\* that after a spawn spawns the next star.
C23_StarSpawn ==
  [][ /\ FrameStep =>
           IF Len(stars) < MaxStars(variant) /\ now' - lastStarAt > StarRespawn(variant)
           THEN /\ Len(ev'.offered) = Len(stars) + 1
                /\ SubSeq(ev'.offered, 1, Len(stars)) = stars
                /\ lastStarAt' = now'
           ELSE /\ ev'.offered = stars
                /\ lastStarAt' = lastStarAt
      /\ ~FrameStep => (lastStarAt' = lastStarAt \/ (rounds' = rounds + 1 /\ lastStarAt' = 0)) ]_vars

\* The third frame of a round started at time 0: the frames came 5100, 100
\* and 5100 ms apart (in some order), one of them too early for a spawn, and
\* this one spawned the second star.
C23_Witness ==
  /\ AfterFrame
  /\ rounds = 1 /\ startedAt = 0 /\ ticks = 3
  /\ now = 5100 + 100 + 5100
  /\ lastStarAt = now
  /\ Len(ev.offered) = 2

\* C24: during a round every obstacle keeps the |vx| and |vy| it was seeded
\* with (a frame only flips signs, nothing else writes an obstacle), and
\* after every frame the circle of every obstacle lies inside the rectangle
\* [0, WORLD_W] x [0, WORLD_H].
C24_ObstaclesStayInside ==
  /\ [][ rounds' = rounds =>
            /\ Len(obstacles') = Len(obstacles)
            /\ \A i \in DOMAIN obstacles :
                  /\ Abs(obstacles'[i].vx) = Abs(obstacles[i].vx)
                  /\ Abs(obstacles'[i].vy) = Abs(obstacles[i].vy) ]_vars
  /\ [](AfterFrame =>
          \A i \in DOMAIN obstacles :
             /\ 0 <= obstacles[i].x - obstacles[i].r
             /\ obstacles[i].x + obstacles[i].r <= WORLD_W
             /\ 0 <= obstacles[i].y - obstacles[i].r
             /\ obstacles[i].y + obstacles[i].r <= WORLD_H)

\* C25: whenever a round has ended, the declared winner agrees with the
\* scores the world holds from the end of the frame that ended it: Pulkit
\* only with pulkit.score > harshil.score, Harshil only with harshil.score >
\* pulkit.score, Draw only with equal scores (part_006 and App.jsx).
C25_WinnerAgreesWithScores ==
  (variant \in {"part_006", "App"} /\ rounds > 0 /\ ~running /\ winner # NULL) =>
     /\ winner = Name(variant, "Pulkit") => players.pulkit.score > players.harshil.score
     /\ winner = Name(variant, "Harshil") => players.harshil.score > players.pulkit.score
     /\ winner = Name(variant, "Draw") => players.pulkit.score = players.harshil.score

\* The stars accounted for: the two scores and the stars in the world.
Tally == players.pulkit.score + players.harshil.score + Len(stars)

\* C26: pulkit.score + harshil.score + stars.length counts the stars spawned
\* since startGame: startGame sets the sum to 0, a running frame raises it
\* by one exactly when it spawns a star (each star it removes from the world
\* moves one unit of the sum from the list to a score), and no other step
\* changes the scores or the list.
C26_StarAccounting ==
  [][ /\ rounds' = rounds + 1 => Tally' = 0
      /\ (rounds' = rounds /\ FrameStep) => Tally' = Tally + Len(ev'.offered) - Len(stars)
      /\ (rounds' = rounds /\ ~FrameStep) =>
            /\ stars' = stars
            /\ \A id \in IDS : players'[id].score = players[id].score ]_vars

\* A frame after which both players have scored and a star is left in the
\* world.
C26_Witness ==
  /\ AfterFrame
  /\ players.pulkit.score >= 1 /\ players.harshil.score >= 1
  /\ Len(stars) >= 1

\* C27: a joystick change event of a player writes only vx and vy of that
\* player's control object: lastDash, dashUntil and dash read the same
\* before and after the event, and the other player's control object is
\* unchanged.
C27_JoystickKeepsDash ==
  [][ \A id \in IDS :
        (inputs' = inputs + 1 /\ ev'.op = "onJoy" /\ ev'.id = id) =>
           /\ \A f \in {"lastDash", "dashUntil", "dash"} :
                 Field(controls'[id], f) = Field(controls[id], f)
           /\ controls'[Other(id)] = controls[Other(id)] ]_vars

\* C28: while running is false, before the first start and after a round
\* has ended, no step other than startGame changes the players, the stars,
\* the power-ups, the obstacles or the winner: an animation frame only
\* draws, and control events write the control objects only.
C28_IdleFrame ==
  [][ (~running /\ rounds' = rounds) =>
         /\ players' = players
         /\ stars' = stars
         /\ powers' = powers
         /\ obstacles' = obstacles
         /\ winner' = winner ]_vars

\* A frame that came after the round had ended: the frame did not simulate,
\* the winner and the scores are those of the end of the round.
C28_Witness ==
  /\ variant = "part_006"
  /\ ev.op = "loop" /\ ~ev.ran
  /\ rounds > 0 /\ ~running /\ winner # NULL
  /\ players.pulkit.score > 0
  /\ now - startedAt > RoundTime(variant) * 1000 + 1000

\* C29: in every state, running = true implies winner = null, and once a
\* round has been started, running = false implies that winner is set: a
\* round is either in progress without a winner or over with one.
C29_RunningOrWinner ==
  /\ running => winner = NULL
  /\ (rounds > 0 /\ ~running) => winner # NULL

\* The frame in which the score cap ended a round of part_006 before the
\* timer did.
C29_Witness ==
  /\ AfterFrame
  /\ ev.capped /\ ~ev.timedOut
  /\ ~running
  /\ winner = "Pulkit"

\* C30: when collideWorldAndObstacles has returned for a player, the player
\* overlaps no obstacle: the centre of the player is at least PLAYER_R + o.r
\* away from the centre of every obstacle o that it does not coincide with,
\* also when the player touched two or more obstacles in that frame.
C30_NoOverlapAfterCollide ==
  (AfterFrame /\ variant # "part_000") =>
     \A id \in IDS : \A i \in DOMAIN obstacles :
        LET p == collideWorldAndObstacles(ev.moved[id], obstacles, now)
            o == obstacles[i]
        IN OnCentre(p, o) \/ ~Within(p.x - o.x, p.y - o.y, PLAYER_R + o.r, TRUE)

====
